---------------------------- MODULE Spec2Model ----------------------------
(***************************************************************************)
(* Model of src/bedrock_test/main.py: the streaming session handler        *)
(* websocket_endpoint (lines 244-314) and the request/response endpoint    *)
(* run_agent (lines 203-216), both driven by one cooperative event loop.   *)
(*                                                                         *)
(* A text is a sequence of atoms; the atom " " is one space character and  *)
(* every other atom is a piece of text without a space in it.  An optional *)
(* JSON field is a sequence of length at most one: <<>> is an absent field *)
(* (data.get returns None), <<v>> is a field holding v.  Fields hold text  *)
(* or are absent, as the message's data model has them.                    *)
(*                                                                         *)
(* The WebSocket object, the agents and the tmp directory are the          *)
(* program's environment.  A call on the WebSocket returns or raises;      *)
(* agent.run returns a response or raises; an event counts as emitted when *)
(* the send_json call that carries it returned.                            *)
(***************************************************************************)
EXTENDS Naturals, Sequences, FiniteSets, TLC

\* ------------------------------------------------------------- bounds
\* Longest agent result text, in atoms.
MaxLen == 3

\* ------------------------------------------------------------- universe
Sessions == {"s1", "s2"}
Requests == {"h1"}
Free == "free"

Space == " "
Alphabet == {"a", Space}

\* All texts over Alphabet of at most n atoms.
Texts(n) == UNION {[1..k -> Alphabet] : k \in 0..n}

\* system.agents, the registry built by _initialize_agents.
RegistryKeys == {"research", "analyze", "general"}

\* An optional field: absent, or holding v.
None == <<>>
Some(v) == <<v>>

\* Python truthiness of a text field: None and the empty text are falsy.
Truthy(f) == f # None /\ f[1] # <<>>

\* The tmp directory as the handler finds it: per file name, whether
\* os.path.exists holds, and what reading it gives.
ArtifactStore ==
    [n \in {<<"notes.txt">>, <<"nope.txt">>, <<"bad.bin">>} |->
        CASE n = <<"notes.txt">> -> [exists |-> TRUE, readable |-> TRUE,
                                     content |-> <<"file", Space, "body">>]
          [] n = <<"nope.txt">>  -> [exists |-> FALSE, readable |-> FALSE,
                                     content |-> <<>>]
          [] n = <<"bad.bin">>   -> [exists |-> TRUE, readable |-> FALSE,
                                     content |-> <<"invalid start byte">>]]

\* ------------------------------------------------------------- inputs
AgentTypeFields == {None, Some(<<>>), Some(<<"team">>), Some(<<"general">>),
                    Some(<<"research">>), Some(<<"bogus">>)}
QueryFields == {None, Some(<<>>), Some(<<"Hello">>)}
SessionIdFields == {None, Some(<<"u1">>)}
AttachedFields == {None, Some(<<>>)} \cup {Some(n) : n \in DOMAIN ArtifactStore}

\* Every inbound message of the single-session specification.
Messages == [agent_type : AgentTypeFields, query : QueryFields,
             session_id : SessionIdFields, attached_file : AttachedFields]

\* What agent.run does: it returns a response whose content is a text,
\* returns a response whose content is not a text, returns no response, or
\* raises an exception with a message.
ExcTexts == {<<"boom">>, <<>>, <<"bad", Space, "gateway">>}
RunOutcomes ==
    [kind : {"content"}, text : Texts(MaxLen) \cup {<<"Hello">>}]
    \cup [kind : {"nontext", "noresponse"}, text : {<<>>}]
    \cup [kind : {"raise"}, text : ExcTexts]

\* The inputs of the concurrent specification: each session has its own
\* messages, queries and identity token, so that a mix-up between sessions
\* shows.
ConcMessages(s) ==
    IF s = "s1"
    THEN { [agent_type |-> Some(<<"general">>), query |-> Some(<<"q1">>),
            session_id |-> Some(<<"u1">>), attached_file |-> None],
           [agent_type |-> Some(<<"bogus">>), query |-> Some(<<"q3">>),
            session_id |-> None, attached_file |-> None] }
    ELSE { [agent_type |-> Some(<<"team">>), query |-> Some(<<"q2">>),
            session_id |-> None, attached_file |-> Some(<<"notes.txt">>)],
           [agent_type |-> Some(<<"team">>), query |-> None,
            session_id |-> None, attached_file |-> None] }
ConcOutcomes ==
    { [kind |-> "content", text |-> <<"a", Space, "b">>],
      [kind |-> "raise", text |-> <<"boom">>] }
HttpOutcomes ==
    ConcOutcomes \cup [kind : {"nontext", "noresponse"}, text : {<<>>}]

\* ------------------------------------------------------------- events
Event(t, c) == [type |-> t, content |-> c]
MissingMsg == <<"Missing agent_type or query">>
InvalidMsg == <<"Invalid agent_type">>
ThinkingMsg == <<"Processing your request...">>
Thinking == Event("thinking", ThinkingMsg)
Done == Event("done", <<>>)

\* str(e) of the exceptions the handler can catch.
WsError == <<"websocket failure">>
PayloadError == <<"malformed payload">>
SplitError == <<"object has no attribute 'split'">>

\* ------------------------------------------------------------- text
\* str.split() without its argument: runs of spaces separate the words and
\* no word is empty.
RECURSIVE SplitNoEmpty(_)
SplitNoEmpty(t) ==
    IF t = <<>> THEN <<>>
    ELSE IF Head(t) = Space THEN SplitNoEmpty(Tail(t))
    ELSE LET n == CHOOSE j \in 1..Len(t) :
                      /\ \A m \in 1..j : t[m] # Space
                      /\ (j = Len(t) \/ t[j + 1] = Space)
         IN  <<SubSeq(t, 1, n)>> \o SplitNoEmpty(SubSeq(t, n + 1, Len(t)))

\* str.split(' '): the words between single spaces; n spaces give n+1
\* words, empty words included.
RECURSIVE Split(_)
Split(t) ==
    IF \A k \in 1..Len(t) : t[k] # Space
    THEN <<t>>
    ELSE LET k == CHOOSE j \in 1..Len(t) :
                      t[j] = Space /\ \A m \in 1..(j - 1) : t[m] # Space
         IN  <<SubSeq(t, 1, k - 1)>> \o Split(SubSeq(t, k + 1, Len(t)))

\* The chunk of the n-th word (n counts from 1; the code's i is n - 1):
\* the word, and one space after every word but the last.
\* The chunk with the separator appended to every word, the last included.
ChunkOfAlwaysSpace(ws, n) == ws[n] \o <<Space>>

ChunkOf(ws, n) == ws[n] \o (IF n < Len(ws) THEN <<Space>> ELSE <<>>)

\* The attachment step with the file block in place of the query.
AugmentReplaces(q, attached) ==
    IF ~Truthy(attached) THEN q
    ELSE LET f == ArtifactStore[attached[1]] IN
         IF ~f.exists THEN q
         ELSE IF f.readable
              THEN <<"\n\n--- Attached File: ">> \o attached[1]
                     \o <<" ---\n">> \o f.content \o <<"\n--- End of File ---">>
              ELSE <<"\n\n[Note: Could not read file ">> \o attached[1]
                     \o <<": ">> \o f.content \o <<"]">>

\* The query after the attachment step.
Augment(q, attached) ==
    IF ~Truthy(attached) THEN q
    ELSE LET f == ArtifactStore[attached[1]] IN
         IF ~f.exists THEN q
         ELSE IF f.readable
              THEN q \o <<"\n\n--- Attached File: ">> \o attached[1]
                     \o <<" ---\n">> \o f.content \o <<"\n--- End of File ---">>
              ELSE q \o <<"\n\n[Note: Could not read file ">> \o attached[1]
                     \o <<": ">> \o f.content \o <<"]">>

\* Agent selection: "team", a registry key, or no agent.
IsAgent(at) == at = <<"team">> \/ (Len(at) = 1 /\ at[1] \in RegistryKeys)

\* data.get('session_id', 'default')
SessionIdOf(m) == IF m.session_id = None THEN <<"default">> ELSE m.session_id[1]

\* run_agent without its try/except: the exception leaves the future and the
\* handler has no result text.
RunAgentResultNoCatch(o) ==
    CASE o.kind = "content"    -> [isText |-> TRUE, text |-> o.text]
      [] o.kind = "nontext"    -> [isText |-> FALSE, text |-> <<>>]
      [] o.kind = "noresponse" -> [isText |-> TRUE, text |-> <<"No", Space, "response", Space, "generated">>]
      [] o.kind = "raise"      -> [isText |-> FALSE, text |-> <<>>]

\* What the nested run_agent returns to the executor's future.
Text(t) == [isText |-> TRUE, text |-> t]
NonText == [isText |-> FALSE, text |-> <<>>]
RunAgentResult(o) ==
    CASE o.kind = "content"    -> Text(o.text)
      [] o.kind = "nontext"    -> NonText
      [] o.kind = "noresponse" -> Text(<<"No", Space, "response", Space, "generated">>)
      [] o.kind = "raise"      -> Text(<<"Error:", Space>> \o o.text)

\* ------------------------------------------------------------- state
VARIABLES
    pc,         \* per session: the handler's position
    msg,        \* per session: the message receive_json returned (optional)
    agent,      \* per session: the local agent (the agent_type it resolved)
    query,      \* per session: the local query, after the attachment step
    session_id, \* per session: the local session_id
    future,     \* per session: the executor future's result (optional)
    words,      \* per session: the local words
    i,          \* per session: the chunk loop's position, from 1
    exc,        \* per session: str(e) of the exception being handled
    events,     \* per session: the events whose send_json returned
    closed,     \* per session: whether a close() call returned
    runCalls,   \* per session: the agent.run calls made, with arguments
    gone,       \* per session: whether the client has disconnected
    wsRaised,   \* per session: whether a WebSocket call raised
    runOutcome, \* per session: how its agent.run ended (optional)
    peersRunning, \* per session: the sessions whose agent run was in
                \* progress when its message arrived
    goneInRun,  \* per session: whether the client disconnected while the
                \* handler was awaiting the agent run
    calls,      \* per session: the calls made on the WebSocket, with how
                \* each ended
    loop,       \* the event loop: Free, or who runs on it without yielding
    hpc,        \* per request: the POST handler's position
    hreq,       \* per request: its agent_type and query
    hres,       \* per request: its response
    hcalls,     \* per request: the agent.run calls made
    hout        \* per request: how its agent.run ended (optional)

sessVars == <<pc, msg, agent, query, session_id, future, words, i, exc,
              events, closed, runCalls, gone, wsRaised, runOutcome,
              peersRunning, goneInRun, calls>>
httpVars == <<hpc, hreq, hres, hcalls, hout>>
vars == <<sessVars, loop, httpVars>>

FinalPcs == {"returned", "disconnected", "handled", "unhandled"}

Init ==
    /\ pc = [s \in Sessions |-> "accept"]
    /\ msg = [s \in Sessions |-> None]
    /\ agent = [s \in Sessions |-> <<>>]
    /\ query = [s \in Sessions |-> <<>>]
    /\ session_id = [s \in Sessions |-> <<>>]
    /\ future = [s \in Sessions |-> None]
    /\ words = [s \in Sessions |-> <<>>]
    /\ i = [s \in Sessions |-> 1]
    /\ exc = [s \in Sessions |-> <<>>]
    /\ events = [s \in Sessions |-> <<>>]
    /\ closed = [s \in Sessions |-> FALSE]
    /\ runCalls = [s \in Sessions |-> <<>>]
    /\ gone = [s \in Sessions |-> FALSE]
    /\ wsRaised = [s \in Sessions |-> FALSE]
    /\ runOutcome = [s \in Sessions |-> None]
    /\ peersRunning = [s \in Sessions |-> {}]
    /\ goneInRun = [s \in Sessions |-> FALSE]
    /\ calls = [s \in Sessions |-> <<>>]
    /\ loop = Free
    /\ hpc = [h \in Requests |-> "idle"]
    /\ hreq = [h \in Requests |-> [agent_type |-> <<>>, query |-> <<>>]]
    /\ hres = [h \in Requests |-> [status |-> 0, body |-> NonText]]
    /\ hcalls = [h \in Requests |-> <<>>]
    /\ hout = [h \in Requests |-> None]

\* ------------------------------------------------------------- WebSocket
\* How a call on the session's WebSocket can end: it returns, it raises an
\* exception, or (once the client is gone) it raises WebSocketDisconnect.
WsOutcomes(s) == {"ok", "exception"} \cup (IF gone[s] THEN {"disconnect"} ELSE {})

\* One call on the WebSocket: the method, the type of the event it carries
\* (for send_json), whether it is made by the outermost except clause, and
\* how it ended.
Call(op, arg, inExcept, o) == [op |-> op, arg |-> arg, inExcept |-> inExcept, out |-> o]
Logged(s, op, arg, inExcept, o) ==
    calls' = [calls EXCEPT ![s] = Append(@, Call(op, arg, inExcept, o))]

\* The except clauses without the WebSocketDisconnect clause: every
\* exception of the try block is reported.
RaisedAllReported(s, o) ==
    /\ o \in {"disconnect", "exception"}
    /\ wsRaised' = [wsRaised EXCEPT ![s] = TRUE]
    /\ pc' = [pc EXCEPT ![s] = "exceptSend"]
    /\ exc' = [exc EXCEPT ![s] = WsError]

\* A WebSocket call inside the try block raised: WebSocketDisconnect goes
\* to the silent branch, any other exception to the reporting branch.
Raised(s, o) ==
    /\ o \in {"disconnect", "exception"}
    /\ wsRaised' = [wsRaised EXCEPT ![s] = TRUE]
    /\ IF o = "disconnect"
       THEN pc' = [pc EXCEPT ![s] = "disconnected"] /\ UNCHANGED exc
       ELSE pc' = [pc EXCEPT ![s] = "exceptSend"]
            /\ exc' = [exc EXCEPT ![s] = WsError]

\* await websocket.send_json(ev) at position `at`, inside the try block;
\* the handler goes on to `next` when it returns.
SendJson(s, at, ev, next) ==
    /\ loop = Free
    /\ pc[s] = at
    /\ \E o \in WsOutcomes(s) :
         /\ Logged(s, "send_json", ev.type, FALSE, o)
         /\ IF o = "ok"
            THEN /\ events' = [events EXCEPT ![s] = Append(@, ev)]
                 /\ pc' = [pc EXCEPT ![s] = next]
                 /\ UNCHANGED <<exc, wsRaised>>
            ELSE Raised(s, o) /\ UNCHANGED events

\* await websocket.close() at position `at`, inside the try block, followed
\* by the handler's return.
CloseAndReturn(s, at) ==
    /\ loop = Free
    /\ pc[s] = at
    /\ \E o \in WsOutcomes(s) :
         /\ Logged(s, "close", "", FALSE, o)
         /\ IF o = "ok"
            THEN /\ closed' = [closed EXCEPT ![s] = TRUE]
                 /\ pc' = [pc EXCEPT ![s] = "returned"]
                 /\ UNCHANGED <<exc, wsRaised>>
            ELSE Raised(s, o) /\ UNCHANGED closed

\* ------------------------------------------------------------- session
\* await websocket.accept(), before the try block: an exception here leaves
\* the handler.
Accept(s) ==
    /\ loop = Free
    /\ pc[s] = "accept"
    /\ \/ /\ pc' = [pc EXCEPT ![s] = "receive"]
          /\ Logged(s, "accept", "", FALSE, "ok")
          /\ UNCHANGED wsRaised
       \/ /\ pc' = [pc EXCEPT ![s] = "unhandled"]
          /\ Logged(s, "accept", "", FALSE, "exception")
          /\ wsRaised' = [wsRaised EXCEPT ![s] = TRUE]
    /\ UNCHANGED <<msg, agent, query, session_id, future, words, i, exc,
                   events, closed, runCalls, gone, loop, runOutcome, peersRunning, goneInRun, httpVars>>

\* The field check testing for None only.
FieldsMissingNoneOnly(m) == m.agent_type = None \/ m.query = None

\* Line 254: not agent_type or not query.
FieldsMissing(m) == ~Truthy(m.agent_type) \/ ~Truthy(m.query)

\* Lines 249-278 and 281, up to the next await: the fields, the validation,
\* the attachment step and the agent selection for message m.
Handle(s, m) ==
    /\ msg' = [msg EXCEPT ![s] = Some(m)]
    /\ peersRunning' = [peersRunning EXCEPT ![s] =
                            {t \in Sessions : pc[t] = "running"}]
    /\ session_id' = [session_id EXCEPT ![s] = SessionIdOf(m)]
    /\ IF FieldsMissing(m)
       THEN /\ pc' = [pc EXCEPT ![s] = "sendMissing"]
            /\ UNCHANGED <<query, agent>>
       ELSE /\ query' = [query EXCEPT ![s] = Augment(m.query[1], m.attached_file)]
            /\ IF IsAgent(m.agent_type[1])
               THEN /\ agent' = [agent EXCEPT ![s] = m.agent_type[1]]
                    /\ pc' = [pc EXCEPT ![s] = "sendThinking"]
               ELSE /\ pc' = [pc EXCEPT ![s] = "sendInvalid"]
                    /\ UNCHANGED agent

\* data = await websocket.receive_json(): a message from M arrives and is
\* handled; or the payload is not a JSON object and an exception is raised
\* (by receive_json, or by data.get); or the client is gone.
Receive(s, M) ==
    /\ loop = Free
    /\ pc[s] = "receive"
    /\ \/ /\ \E m \in M : Handle(s, m)
          /\ Logged(s, "receive_json", "", FALSE, "ok")
          /\ UNCHANGED <<exc, wsRaised>>
       \/ /\ pc' = [pc EXCEPT ![s] = "exceptSend"]
          /\ exc' = [exc EXCEPT ![s] = PayloadError]
          /\ Logged(s, "receive_json", "", FALSE, "exception")
          /\ UNCHANGED <<msg, agent, query, session_id, wsRaised, peersRunning>>
       \/ /\ gone[s]
          /\ pc' = [pc EXCEPT ![s] = "disconnected"]
          /\ wsRaised' = [wsRaised EXCEPT ![s] = TRUE]
          /\ Logged(s, "receive_json", "", FALSE, "disconnect")
          /\ UNCHANGED <<msg, agent, query, session_id, exc, peersRunning>>
    /\ UNCHANGED <<future, words, i, events, closed, runCalls, gone, loop,
                   runOutcome, goneInRun, httpVars>>

\* Lines 255-257.
SendMissing(s) ==
    /\ SendJson(s, "sendMissing", Event("error", MissingMsg), "closeMissing")
    /\ UNCHANGED <<msg, agent, query, session_id, future, words, i, closed,
                   runCalls, gone, loop, runOutcome, peersRunning, goneInRun, httpVars>>

CloseMissing(s) ==
    /\ CloseAndReturn(s, "closeMissing")
    /\ UNCHANGED <<msg, agent, query, session_id, future, words, i, events,
                   runCalls, gone, loop, runOutcome, peersRunning, goneInRun, httpVars>>

\* Lines 276-278.
SendInvalid(s) ==
    /\ SendJson(s, "sendInvalid", Event("error", InvalidMsg), "closeInvalid")
    /\ UNCHANGED <<msg, agent, query, session_id, future, words, i, closed,
                   runCalls, gone, loop, runOutcome, peersRunning, goneInRun, httpVars>>

\* The return of line 278 without the close of line 277.
CloseInvalidNoClose(s) ==
    /\ loop = Free
    /\ pc[s] = "closeInvalid"
    /\ pc' = [pc EXCEPT ![s] = "returned"]
    /\ UNCHANGED <<msg, agent, query, session_id, future, words, i, exc,
                   events, closed, runCalls, gone, wsRaised, loop, runOutcome,
                   peersRunning, goneInRun, calls, httpVars>>

CloseInvalid(s) ==
    /\ CloseAndReturn(s, "closeInvalid")
    /\ UNCHANGED <<msg, agent, query, session_id, future, words, i, events,
                   runCalls, gone, loop, runOutcome, peersRunning, goneInRun, httpVars>>

\* The agent.run call of the nested run_agent (line 287).
\* agent.run called with handler state kept in module-level names: the
\* query and the session token are those of the handler that assigned last,
\* here any other session that has received its message.
RunCallShared(s) ==
    LET others == {t \in Sessions \ {s} : msg[t] # <<>>}
        o == IF others = {} THEN s ELSE CHOOSE t \in others : TRUE
    IN  [agent |-> agent[s], query |-> query[o], user_id |-> session_id[o]]

RunCall(s) == [agent |-> agent[s], query |-> query[s], user_id |-> session_id[s]]

\* The dispatch without the thinking event.
DispatchNoThinking(s) ==
    /\ loop = Free
    /\ pc[s] = "sendThinking"
    /\ pc' = [pc EXCEPT ![s] = "running"]
    /\ runCalls' = [runCalls EXCEPT ![s] = Append(@, RunCall(s))]
    /\ UNCHANGED <<msg, agent, query, session_id, future, words, i, exc,
                   events, closed, gone, wsRaised, loop, runOutcome, peersRunning, goneInRun, calls, httpVars>>

\* The dispatch with agent.run called in the coroutine itself, which keeps
\* the event loop until the call ends.
DispatchOnLoop(s) ==
    /\ SendJson(s, "sendThinking", Thinking, "running")
    /\ runCalls' = [runCalls EXCEPT ![s] =
                        IF pc'[s] = "running" THEN Append(@, RunCall(s)) ELSE @]
    /\ loop' = IF pc'[s] = "running" THEN s ELSE loop
    /\ UNCHANGED <<msg, agent, query, session_id, future, words, i, closed,
                   gone, runOutcome, peersRunning, goneInRun, httpVars>>

\* Lines 281-293: the thinking event, then run_agent is handed to the
\* executor and the handler awaits its future; the event loop stays free.
Dispatch(s) ==
    /\ SendJson(s, "sendThinking", Thinking, "running")
    /\ runCalls' = [runCalls EXCEPT ![s] =
                        IF pc'[s] = "running" THEN Append(@, RunCall(s)) ELSE @]
    /\ UNCHANGED <<msg, agent, query, session_id, future, words, i, closed,
                   gone, loop, runOutcome, peersRunning, goneInRun, httpVars>>

\* The worker thread: agent.run ends with an outcome from O and run_agent's
\* return value completes the future.  The worker does not need the loop.
WorkerFinish(s, O) ==
    /\ pc[s] = "running"
    /\ \E o \in O :
         /\ runOutcome' = [runOutcome EXCEPT ![s] = Some(o)]
         /\ future' = [future EXCEPT ![s] = Some(RunAgentResult(o))]
    /\ pc' = [pc EXCEPT ![s] = "resume"]
    /\ loop' = IF loop = s THEN Free ELSE loop
    /\ UNCHANGED <<msg, agent, query, session_id, words, i, exc, events,
                   closed, runCalls, gone, wsRaised, peersRunning, goneInRun, calls, httpVars>>

\* Lines 293-297: the handler resumes with response_text and splits it, and
\* the loop over the words begins; a result that is not a text has no split
\* and raises.
Resume(s) ==
    /\ loop = Free
    /\ pc[s] = "resume"
    /\ IF future[s][1].isText
       THEN /\ words' = [words EXCEPT ![s] = Split(future[s][1].text)]
            /\ i' = [i EXCEPT ![s] = 1]
            /\ pc' = [pc EXCEPT ![s] =
                         IF words'[s] # <<>> THEN "sendChunk" ELSE "sendDone"]
            /\ UNCHANGED exc
       ELSE /\ pc' = [pc EXCEPT ![s] = "exceptSend"]
            /\ exc' = [exc EXCEPT ![s] = SplitError]
            /\ UNCHANGED <<words, i>>
    /\ UNCHANGED <<msg, agent, query, session_id, future, events, closed,
                   runCalls, gone, wsRaised, loop, runOutcome, peersRunning, goneInRun, calls, httpVars>>

\* Lines 298-299: the chunk of the current word is sent.
SendChunk(s) ==
    /\ SendJson(s, "sendChunk", Event("chunk", ChunkOf(words[s], i[s])), "sleep")
    /\ UNCHANGED <<msg, agent, query, session_id, future, words, i, closed,
                   runCalls, gone, loop, runOutcome, peersRunning, goneInRun, httpVars>>

\* Line 300 and the loop's next iteration: after the delay the loop goes to
\* the next word, or ends.
\* A pacing step that waits for the other sessions to end before going on.
SleepWaitsForPeers(s) ==
    /\ loop = Free
    /\ pc[s] = "sleep"
    /\ \A t \in Sessions \ {s} : pc[t] \in FinalPcs
    /\ i' = [i EXCEPT ![s] = @ + 1]
    /\ pc' = [pc EXCEPT ![s] = IF i[s] < Len(words[s]) THEN "sendChunk" ELSE "sendDone"]
    /\ UNCHANGED <<msg, agent, query, session_id, future, words, exc, events,
                   closed, runCalls, gone, wsRaised, loop, runOutcome, peersRunning, goneInRun, calls, httpVars>>

Sleep(s) ==
    /\ loop = Free
    /\ pc[s] = "sleep"
    /\ i' = [i EXCEPT ![s] = @ + 1]
    /\ pc' = [pc EXCEPT ![s] = IF i[s] < Len(words[s]) THEN "sendChunk" ELSE "sendDone"]
    /\ UNCHANGED <<msg, agent, query, session_id, future, words, exc, events,
                   closed, runCalls, gone, wsRaised, loop, runOutcome, peersRunning, goneInRun, calls, httpVars>>

\* Lines 303-304.
SendDone(s) ==
    /\ SendJson(s, "sendDone", Done, "closeDone")
    /\ UNCHANGED <<msg, agent, query, session_id, future, words, i, closed,
                   runCalls, gone, loop, runOutcome, peersRunning, goneInRun, httpVars>>

\* The handler's end after done without the close of line 304.
CloseDoneNoClose(s) ==
    /\ loop = Free
    /\ pc[s] = "closeDone"
    /\ pc' = [pc EXCEPT ![s] = "returned"]
    /\ UNCHANGED <<msg, agent, query, session_id, future, words, i, exc,
                   events, closed, runCalls, gone, wsRaised, loop, runOutcome,
                   peersRunning, goneInRun, calls, httpVars>>

\* A handler that serves messages in a loop: after done it waits for the
\* next message instead of closing.
CloseDoneLoops(s) ==
    /\ loop = Free
    /\ pc[s] = "closeDone"
    /\ pc' = [pc EXCEPT ![s] = "receive"]
    /\ UNCHANGED <<msg, agent, query, session_id, future, words, i, exc,
                   events, closed, runCalls, gone, wsRaised, loop, runOutcome,
                   peersRunning, goneInRun, calls, httpVars>>

CloseDone(s) ==
    /\ CloseAndReturn(s, "closeDone")
    /\ UNCHANGED <<msg, agent, query, session_id, future, words, i, events,
                   runCalls, gone, loop, runOutcome, peersRunning, goneInRun, httpVars>>

\* Lines 308-311: the outermost except reports str(e); if that send raises,
\* the bare except swallows it and the handler ends.
\* The except clause of lines 308-314 without its inner try: a failure of
\* the report leaves the handler.
ExceptSendNoSwallow(s) ==
    /\ loop = Free
    /\ pc[s] = "exceptSend"
    /\ \E o \in WsOutcomes(s) :
         /\ Logged(s, "send_json", "error", TRUE, o)
         /\ IF o = "ok"
            THEN /\ events' = [events EXCEPT ![s] = Append(@, Event("error", exc[s]))]
                 /\ pc' = [pc EXCEPT ![s] = "exceptClose"]
                 /\ UNCHANGED wsRaised
            ELSE /\ pc' = [pc EXCEPT ![s] = "unhandled"]
                 /\ wsRaised' = [wsRaised EXCEPT ![s] = TRUE]
                 /\ UNCHANGED events
    /\ UNCHANGED <<msg, agent, query, session_id, future, words, i, exc,
                   closed, runCalls, gone, loop, runOutcome, peersRunning, goneInRun, httpVars>>

ExceptSend(s) ==
    /\ loop = Free
    /\ pc[s] = "exceptSend"
    /\ \E o \in WsOutcomes(s) :
         /\ Logged(s, "send_json", "error", TRUE, o)
         /\ IF o = "ok"
            THEN /\ events' = [events EXCEPT ![s] = Append(@, Event("error", exc[s]))]
                 /\ pc' = [pc EXCEPT ![s] = "exceptClose"]
                 /\ UNCHANGED wsRaised
            ELSE /\ pc' = [pc EXCEPT ![s] = "handled"]
                 /\ wsRaised' = [wsRaised EXCEPT ![s] = TRUE]
                 /\ UNCHANGED events
    /\ UNCHANGED <<msg, agent, query, session_id, future, words, i, exc,
                   closed, runCalls, gone, loop, runOutcome, peersRunning, goneInRun, httpVars>>

\* Lines 312-314: the close after the report; a failure is swallowed.
ExceptClose(s) ==
    /\ loop = Free
    /\ pc[s] = "exceptClose"
    /\ \E o \in WsOutcomes(s) :
         /\ Logged(s, "close", "", TRUE, o)
         /\ IF o = "ok"
            THEN closed' = [closed EXCEPT ![s] = TRUE] /\ UNCHANGED wsRaised
            ELSE wsRaised' = [wsRaised EXCEPT ![s] = TRUE] /\ UNCHANGED closed
    /\ pc' = [pc EXCEPT ![s] = "handled"]
    /\ UNCHANGED <<msg, agent, query, session_id, future, words, i, exc,
                   events, runCalls, gone, loop, runOutcome, peersRunning, goneInRun, httpVars>>

\* The client closes its side of the connection, at any moment of a session.
ClientDisconnect(s) ==
    /\ pc[s] \notin FinalPcs \cup {"accept"}
    /\ ~gone[s]
    /\ gone' = [gone EXCEPT ![s] = TRUE]
    /\ goneInRun' = [goneInRun EXCEPT ![s] = (pc[s] = "running")]
    /\ UNCHANGED <<pc, msg, agent, query, session_id, future, words, i, exc,
                   events, closed, runCalls, wsRaised, loop, runOutcome, peersRunning, calls, httpVars>>

\* ------------------------------------------------------------- POST /run
HttpAgentTypes == {<<"general">>, <<"bogus">>}
HttpQueries == {<<"q9">>}
NotFound == [status |-> 404, body |-> Text(<<"Agent not found">>)]

\* Lines 204-213: the agent is selected; an unknown agent_type is answered
\* 404; otherwise agent.run is called in the coroutine itself, which keeps
\* the event loop until the call ends.
HttpInvoke(h) ==
    /\ loop = Free
    /\ hpc[h] = "idle"
    /\ \E at \in HttpAgentTypes, q \in HttpQueries :
         /\ hreq' = [hreq EXCEPT ![h] = [agent_type |-> at, query |-> q]]
         /\ IF IsAgent(at)
            THEN /\ hcalls' = [hcalls EXCEPT ![h] =
                                   Append(@, [agent |-> at, query |-> q])]
                 /\ hpc' = [hpc EXCEPT ![h] = "running"]
                 /\ loop' = h
                 /\ UNCHANGED hres
            ELSE /\ hres' = [hres EXCEPT ![h] = NotFound]
                 /\ hpc' = [hpc EXCEPT ![h] = "responded"]
                 /\ UNCHANGED <<hcalls, loop>>
    /\ UNCHANGED <<sessVars, hout>>

\* The POST handler with the WebSocket handler's conversion: the exception
\* becomes an ordinary answer carrying "Error: m".
HttpResponseErrorText(o) ==
    CASE o.kind = "content"    -> [status |-> 200, body |-> Text(o.text)]
      [] o.kind = "nontext"    -> [status |-> 200, body |-> NonText]
      [] o.kind = "noresponse" -> [status |-> 500, body |-> Text(<<"no attribute 'content'">>)]
      [] o.kind = "raise"      -> [status |-> 200, body |-> Text(<<"Error:", Space>> \o o.text)]

\* Lines 213-216: agent.run ends; its content is returned, or the exception
\* becomes a 500 whose detail is str(e).
HttpResponse(o) ==
    CASE o.kind = "content"    -> [status |-> 200, body |-> Text(o.text)]
      [] o.kind = "nontext"    -> [status |-> 200, body |-> NonText]
      [] o.kind = "noresponse" -> [status |-> 500, body |-> Text(<<"no attribute 'content'">>)]
      [] o.kind = "raise"      -> [status |-> 500, body |-> Text(o.text)]

HttpReturn(h, O) ==
    /\ hpc[h] = "running"
    /\ \E o \in O :
         /\ hout' = [hout EXCEPT ![h] = Some(o)]
         /\ hres' = [hres EXCEPT ![h] = HttpResponse(o)]
    /\ hpc' = [hpc EXCEPT ![h] = "responded"]
    /\ loop' = IF loop = h THEN Free ELSE loop
    /\ UNCHANGED <<sessVars, hreq, hcalls>>

\* ------------------------------------------------------------- specifications
\* One streaming session, with every message and every agent outcome.
Next ==
    \E s \in {"s1"} :
        \/ Accept(s)
        \/ Receive(s, Messages)
        \/ SendMissing(s)
        \/ CloseMissing(s)
        \/ SendInvalid(s)
        \/ CloseInvalid(s)
        \/ Dispatch(s)
        \/ WorkerFinish(s, RunOutcomes)
        \/ Resume(s)
        \/ SendChunk(s)
        \/ Sleep(s)
        \/ SendDone(s)
        \/ CloseDone(s)
        \/ ExceptSend(s)
        \/ ExceptClose(s)
        \/ ClientDisconnect(s)

Spec == Init /\ [][Next]_vars

\* The steps of the handler of session s and of its worker thread: all the
\* steps of the session but the client's disconnect.
HandlerStep(s) ==
    \/ Accept(s)
    \/ Receive(s, Messages)
    \/ SendMissing(s)
    \/ CloseMissing(s)
    \/ SendInvalid(s)
    \/ CloseInvalid(s)
    \/ Dispatch(s)
    \/ WorkerFinish(s, RunOutcomes)
    \/ Resume(s)
    \/ SendChunk(s)
    \/ Sleep(s)
    \/ SendDone(s)
    \/ CloseDone(s)
    \/ ExceptSend(s)
    \/ ExceptClose(s)

\* The event loop schedules a handler that can take a step, and the agent's
\* run in the worker thread ends; nothing makes the client disconnect.
LiveSpec == Spec /\ WF_vars(HandlerStep("s1"))

\* Two streaming sessions and one POST /run request on the one event loop.
ConcNext ==
    \/ \E s \in Sessions :
        \/ Accept(s)
        \/ Receive(s, ConcMessages(s))
        \/ SendMissing(s)
        \/ CloseMissing(s)
        \/ SendInvalid(s)
        \/ CloseInvalid(s)
        \/ Dispatch(s)
        \/ WorkerFinish(s, ConcOutcomes)
        \/ Resume(s)
        \/ SendChunk(s)
        \/ Sleep(s)
        \/ SendDone(s)
        \/ CloseDone(s)
        \/ ExceptSend(s)
        \/ ExceptClose(s)
        \/ ClientDisconnect(s)
    \/ \E h \in Requests :
        \/ HttpInvoke(h)
        \/ HttpReturn(h, HttpOutcomes)

ConcSpec == Init /\ [][ConcNext]_vars

\* ------------------------------------------------------------- properties
Received(s) == msg[s] # None
Final(s) == pc[s] \in FinalPcs

\* A message that passes the field validation and the agent selection.
Valid(m) == Truthy(m.agent_type) /\ Truthy(m.query) /\ IsAgent(m.agent_type[1])

IsTerminal(e) == e.type \in {"done", "error"}
IsChunk(e) == e.type = "chunk"
Count(ev, ty) == Cardinality({k \in 1..Len(ev) : ev[k].type = ty})

\* The payloads of the chunk events of ev, in emission order.
ChunkPayloads(ev) ==
    LET cs == SelectSeq(ev, IsChunk) IN [k \in 1..Len(cs) |-> cs[k].content]

RECURSIVE Concat(_)
Concat(ss) == IF ss = <<>> THEN <<>> ELSE Head(ss) \o Concat(Tail(ss))

IsPrefix(a, b) == Len(a) <= Len(b) /\ SubSeq(b, 1, Len(a)) = a

\* thinking, then chunks, then one terminal event, and nothing else.
FullStream(ev) ==
    /\ Len(ev) >= 2
    /\ ev[1].type = "thinking"
    /\ \A k \in 2..(Len(ev) - 1) : ev[k].type = "chunk"
    /\ IsTerminal(ev[Len(ev)])

\* A beginning of such a stream.
StreamSoFar(ev) ==
    \/ ev = <<>>
    \/ /\ ev[1].type = "thinking"
       /\ \A k \in 2..Len(ev) :
            ev[k].type = "chunk" \/ (k = Len(ev) /\ IsTerminal(ev[k]))

\* On every path: at most one thinking, and it is the first event; every
\* chunk comes after thinking and before any done or error.
OrderKept(ev) ==
    /\ Count(ev, "thinking") <= 1
    /\ \A k \in 1..Len(ev) :
         /\ ev[k].type = "thinking" => k = 1
         /\ ev[k].type = "chunk" =>
              /\ ev[1].type = "thinking"
              /\ \A j \in 1..(k - 1) : ~IsTerminal(ev[j])

\* C1: for every valid inbound message: on every path, thinking is emitted
\* at most once and first, and the chunks follow it and precede every done
\* or error; in a session whose WebSocket calls all return (the client stays
\* connected and receives what is sent), the events emitted are at every
\* moment a beginning of: one thinking, then zero or more chunk, then one of
\* done / error; and when the handler has ended they are exactly that, with
\* exactly one terminal event, last.
C1_EventSequence ==
    \A s \in Sessions :
        /\ (Received(s) /\ Valid(msg[s][1])) => OrderKept(events[s])
        /\ (Received(s) /\ Valid(msg[s][1]) /\ ~wsRaised[s]) =>
            /\ StreamSoFar(events[s])
            /\ Final(s) =>
                 /\ FullStream(events[s])
                 /\ Count(events[s], "thinking") = 1
                 /\ Count(events[s], "done") + Count(events[s], "error") = 1

\* C1's case: a session of a valid message has ended with thinking, two or
\* more chunks and done, every WebSocket call having returned.
C1_Witness ==
    /\ pc["s1"] = "returned"
    /\ Received("s1") /\ Valid(msg["s1"][1]) /\ ~wsRaised["s1"]
    /\ Len(events["s1"]) >= 4
    /\ events["s1"][Len(events["s1"])] = Done

\* C2: in any session that has emitted done, the payloads of its chunk
\* events, concatenated in emission order, are exactly the text the agent
\* dispatch returned; every chunk but the last is a word without a space
\* followed by one space, and the last is a word without a space.
C2_ChunkRoundTrip ==
    \A s \in Sessions :
        Count(events[s], "done") > 0 =>
            LET cs == ChunkPayloads(events[s]) IN
            /\ future[s] # None /\ future[s][1].isText
            /\ Concat(cs) = future[s][1].text
            /\ Len(cs) >= 1
            /\ \A k \in 1..Len(cs) :
                 IF k < Len(cs)
                 THEN /\ Len(cs[k]) >= 1
                      /\ cs[k][Len(cs[k])] = Space
                      /\ \A j \in 1..(Len(cs[k]) - 1) : cs[k][j] # Space
                 ELSE \A j \in 1..Len(cs[k]) : cs[k][j] # Space

\* C2's case: done was emitted for a result text with two consecutive
\* spaces and a trailing one.
C2_Witness ==
    /\ Count(events["s1"], "done") > 0
    /\ future["s1"] = Some(Text(<<"a", Space, Space>>))

\* C3: in every session, on every path: done is emitted at most once,
\* error is emitted at most once, never both, and no event is emitted
\* after a done or error event.
C3_SingleTerminal ==
    \A s \in Sessions :
        /\ Count(events[s], "done") <= 1
        /\ Count(events[s], "error") <= 1
        /\ Count(events[s], "done") + Count(events[s], "error") <= 1
        /\ \A k \in 1..Len(events[s]) :
             IsTerminal(events[s][k]) => k = Len(events[s])

\* C4: agent.run is invoked in a session only after its message passed the
\* field validation, its agent_type resolved to the team or a registry
\* agent and the thinking event was emitted; the call is made on the agent
\* the message names; a message that is invalid never causes an agent run,
\* and no thinking event is emitted for it.
C4_ValidatedBeforeDispatch ==
    \A s \in Sessions :
        /\ runCalls[s] # <<>> =>
             /\ Received(s)
             /\ Truthy(msg[s][1].agent_type) /\ Truthy(msg[s][1].query)
             /\ IsAgent(msg[s][1].agent_type[1])
             /\ \A k \in 1..Len(runCalls[s]) :
                  runCalls[s][k].agent = msg[s][1].agent_type[1]
             /\ events[s] # <<>> /\ events[s][1] = Thinking
        /\ (Received(s) /\ ~Valid(msg[s][1])) =>
             /\ runCalls[s] = <<>>
             /\ Count(events[s], "thinking") = 0
        /\ ~Received(s) => runCalls[s] = <<>>

\* C4's case: agent.run has been invoked.
C4_Witness ==
    /\ runCalls["s1"] # <<>>
    /\ pc["s1"] = "running"

\* C5: in a session whose WebSocket calls all return, a message with a
\* missing or empty agent_type or query yields exactly the one event
\* error("Missing agent_type or query"), and a message with agent_type and
\* query non-empty and an agent_type that is neither "team" nor a registry
\* key yields exactly the one event error("Invalid agent_type"); in both
\* cases the handler then closes the connection and returns, and nothing
\* else is emitted.
C5_ValidationErrors ==
    \A s \in Sessions :
        (Received(s) /\ ~Valid(msg[s][1]) /\ ~wsRaised[s]) =>
            LET m == msg[s][1]
                e == IF ~Truthy(m.agent_type) \/ ~Truthy(m.query)
                     THEN Event("error", MissingMsg)
                     ELSE Event("error", InvalidMsg)
            IN  /\ events[s] \in {<<>>, <<e>>}
                /\ closed[s] => events[s] = <<e>>
                /\ Final(s) =>
                     /\ pc[s] = "returned"
                     /\ events[s] = <<e>>
                     /\ closed[s]

\* C5's case: the message {agent_type: "bogus", query: "Hello"} has been
\* answered and the handler has returned.
C5_Witness ==
    /\ pc["s1"] = "returned"
    /\ ~wsRaised["s1"]
    /\ Received("s1")
    /\ msg["s1"][1].agent_type = Some(<<"bogus">>)
    /\ msg["s1"][1].query = Some(<<"Hello">>)
    /\ events["s1"] = <<Event("error", InvalidMsg)>>

\* The stream of a result text: thinking, its chunks in word order, done.
StreamOf(t) ==
    <<Thinking>>
    \o [k \in 1..Len(Split(t)) |-> Event("chunk", ChunkOf(Split(t), k))]
    \o <<Done>>

\* C6: when agent.run raises an exception with message m, the result text
\* of the dispatch is "Error: m" and the handler goes on to stream it: in a
\* session whose WebSocket calls all return, the events are at every moment
\* a beginning of thinking, the chunks of "Error: m" in word order, done,
\* and exactly that when the handler has ended (for m = "boom": thinking,
\* chunk "Error: ", chunk "boom", done); no error event is emitted.
C6_RunFailureStreamed ==
    \A s \in Sessions :
        (runOutcome[s] # None /\ runOutcome[s][1].kind = "raise") =>
            LET m == runOutcome[s][1].text
                t == <<"Error:", Space>> \o m
            IN  /\ future[s] = Some(Text(t))
                /\ ~wsRaised[s] =>
                     /\ pc[s] \notin {"exceptSend", "exceptClose", "handled"}
                     /\ IsPrefix(events[s], StreamOf(t))
                     /\ Count(events[s], "error") = 0
                     /\ Final(s) =>
                          /\ pc[s] = "returned"
                          /\ events[s] = StreamOf(t)
                          /\ m = <<"boom">> =>
                               events[s] = <<Thinking,
                                             Event("chunk", <<"Error:", Space>>),
                                             Event("chunk", <<"boom">>),
                                             Done>>

\* C6's case: agent.run raised "boom" and the session has ended.
C6_Witness ==
    /\ runOutcome["s1"] = Some([kind |-> "raise", text |-> <<"boom">>])
    /\ pc["s1"] = "returned"
    /\ ~wsRaised["s1"]

\* The message of session s names an attached file.
HasAttachment(s) == Received(s) /\ Truthy(msg[s][1].attached_file)
FileOf(s) == ArtifactStore[msg[s][1].attached_file[1]]

\* C7: when attached_file names a file that does not exist in the artifact
\* store, the query passed to agent.run is the original query with a note
\* about the read failure appended; it is not the unmodified original query.
C7_MissingFileNote ==
    \A s \in Sessions :
        (HasAttachment(s) /\ ~FileOf(s).exists) =>
            \A k \in 1..Len(runCalls[s]) :
                /\ IsPrefix(msg[s][1].query[1], runCalls[s][k].query)
                /\ runCalls[s][k].query # msg[s][1].query[1]

\* C8: for a valid message with an attached_file, whatever reading the
\* attachment gives (readable, missing, unreadable): the attachment step
\* does not end the session and causes no error event; the agent is
\* dispatched once the thinking event is out; the query it receives begins
\* with the original query text, followed by the delimited file block when
\* the file was read.
C8_AttachmentDegrades ==
    \A s \in Sessions :
        (HasAttachment(s) /\ Valid(msg[s][1])) =>
            LET q == msg[s][1].query[1]
                n == msg[s][1].attached_file[1]
            IN  /\ IsPrefix(q, query[s])
                /\ (FileOf(s).exists /\ FileOf(s).readable) =>
                     query[s] = q \o <<"\n\n--- Attached File: ">> \o n
                                  \o <<" ---\n">> \o FileOf(s).content
                                  \o <<"\n--- End of File ---">>
                /\ \A k \in 1..Len(runCalls[s]) : runCalls[s][k].query = query[s]
                /\ ~wsRaised[s] =>
                     /\ pc[s] # "sendThinking" => Len(runCalls[s]) = 1
                     /\ runOutcome[s] = None => Count(events[s], "error") = 0

\* C8's case: the agent was dispatched for a valid message whose attachment
\* exists and cannot be read.
C8_Witness ==
    /\ HasAttachment("s1") /\ Valid(msg["s1"][1])
    /\ FileOf("s1").exists /\ ~FileOf("s1").readable
    /\ Len(runCalls["s1"]) = 1
    /\ ~wsRaised["s1"]

\* The next step of session t's handler, or of its worker.
SessionStep(t) ==
    \/ Accept(t) \/ Receive(t, ConcMessages(t))
    \/ SendMissing(t) \/ CloseMissing(t) \/ SendInvalid(t) \/ CloseInvalid(t)
    \/ Dispatch(t) \/ WorkerFinish(t, ConcOutcomes) \/ Resume(t)
    \/ SendChunk(t) \/ Sleep(t) \/ SendDone(t) \/ CloseDone(t)
    \/ ExceptSend(t) \/ ExceptClose(t)

\* C9: while a session's agent run is in progress the event loop is not
\* held by it, and (unless a POST /run request holds the loop) every other
\* session that has not ended can take its next step: receive its message,
\* emit its events, reach its terminal event.
C9_RunOffLoop ==
    \A s \in Sessions :
        pc[s] = "running" =>
            /\ loop # s
            /\ loop \notin Requests =>
                 \A t \in Sessions \ {s} : ~Final(t) => ENABLED SessionStep(t)

\* C9's case: s2's message arrived while s1's agent run was in progress,
\* and s2 has emitted done and returned while that run is still in progress.
C9_Witness ==
    /\ pc["s1"] = "running"
    /\ "s1" \in peersRunning["s2"]
    /\ pc["s2"] = "returned"
    /\ Count(events["s2"], "done") = 1

\* C10: no agent run in progress, whichever endpoint made it, holds the
\* event loop; while one is in progress every streaming session that has
\* not ended can take its next step.
C10_EveryRunOffLoop ==
    /\ \A s \in Sessions : pc[s] = "running" => loop # s
    /\ \A h \in Requests : hpc[h] = "running" => loop # h
    /\ (\E s \in Sessions : pc[s] = "running") \/ (\E h \in Requests : hpc[h] = "running")
         => \A t \in Sessions : ~Final(t) => ENABLED SessionStep(t)

\* The calls of session s on its WebSocket that carry an event.
IsSend(c) == c.op = "send_json"
IsClose(c) == c.op = "close"

\* C11: once a WebSocket call of the handler has raised WebSocketDisconnect
\* (the handler observes the disconnect), the handler makes no further call
\* on the WebSocket: no event of any kind is attempted, no error event is
\* synthesized; the handler has ended, and not by an exception leaving it.
C11_SilentAbort ==
    \A s \in Sessions :
        \A k \in 1..Len(calls[s]) :
            calls[s][k].out = "disconnect" =>
                /\ k = Len(calls[s])
                /\ pc[s] \in {"disconnected", "handled"}
                /\ calls[s][k].inExcept <=> pc[s] = "handled"

\* C11's case: the client disconnected after thinking and before the chunks
\* were all delivered, and the handler has observed it.
C11_Witness ==
    /\ pc["s1"] = "disconnected"
    /\ Len(events["s1"]) = 2
    /\ events["s1"][2].type = "chunk"
    /\ Len(words["s1"]) = 3

\* C12: a client disconnect while the handler is awaiting the agent run
\* cancels the session's remaining work: the run is not carried through to
\* completion for the session, the handler does not go on to the streaming
\* phase, and no chunk send is attempted.
C12_DisconnectCancelsRun ==
    \A s \in Sessions :
        goneInRun[s] =>
            /\ runOutcome[s] = None
            /\ pc[s] \in {"running"} \cup FinalPcs
            /\ \A k \in 1..Len(calls[s]) :
                 ~(IsSend(calls[s][k]) /\ calls[s][k].arg = "chunk")

\* C13: a POST /run request ends in exactly one of three ways: the
\* agent_type is "team" or a registry key and agent.run returns, and the
\* answer is 200 with the response's content; the agent_type is neither,
\* and the answer is 404 with no agent invoked; agent.run raises (or
\* returns no response), and the answer is 500.  Only a known agent_type
\* invokes an agent, once, with the request's query.
C13_InvokeOutcomes ==
    \A h \in Requests :
        /\ hpc[h] # "responded" => hres[h].status = 0
        /\ hcalls[h] # <<>> =>
             /\ IsAgent(hreq[h].agent_type)
             /\ hcalls[h] = <<[agent |-> hreq[h].agent_type, query |-> hreq[h].query]>>
        /\ hpc[h] = "responded" =>
             IF ~IsAgent(hreq[h].agent_type)
             THEN hres[h] = NotFound /\ hcalls[h] = <<>> /\ hout[h] = None
             ELSE /\ Len(hcalls[h]) = 1
                  /\ hout[h] # None
                  /\ hout[h][1].kind = "content" =>
                       hres[h] = [status |-> 200, body |-> Text(hout[h][1].text)]
                  /\ hout[h][1].kind = "nontext" => hres[h].status = 200
                  /\ hout[h][1].kind = "raise" =>
                       hres[h] = [status |-> 500, body |-> Text(hout[h][1].text)]
                  /\ hout[h][1].kind = "noresponse" => hres[h].status = 500

\* C13's case: the agent's run raised "boom" and the request was answered.
C13_Witness ==
    /\ hpc["h1"] = "responded"
    /\ hout["h1"] = Some([kind |-> "raise", text |-> <<"boom">>])

\* The call k of session s is a send that returned and carried a terminal
\* event.
TerminalSent(s, k) ==
    /\ IsSend(calls[s][k])
    /\ calls[s][k].out = "ok"
    /\ calls[s][k].arg \in {"done", "error"}

\* C14: after every terminal event the handler has emitted (done, a
\* validation error, the outermost except's error) its next call on the
\* WebSocket is close(): either that close has been called, or it is the
\* handler's next step; no handler ends with a terminal event sent and no
\* close called after it, and when the WebSocket calls return the
\* connection is closed at the handler's end.
C14_CloseAfterTerminal ==
    \A s \in Sessions :
        /\ \A k \in 1..Len(calls[s]) :
             TerminalSent(s, k) =>
                IF k = Len(calls[s])
                THEN pc[s] \in {"closeMissing", "closeInvalid", "closeDone",
                                "exceptClose"}
                ELSE IsClose(calls[s][k + 1])
        /\ (Final(s) /\ ~wsRaised[s] /\ Received(s)) =>
             /\ closed[s]
             /\ IsClose(calls[s][Len(calls[s])])
             /\ TerminalSent(s, Len(calls[s]) - 1)

\* C14's case: done was emitted, the connection was closed and the handler
\* has returned.
C14_Witness ==
    /\ pc["s1"] = "returned"
    /\ closed["s1"]
    /\ Count(events["s1"], "done") = 1
    /\ ~wsRaised["s1"]

\* The calls of session s made in the outermost except clause.
Reports(s) == {k \in 1..Len(calls[s]) : calls[s][k].inExcept}

\* C15: a failure that is not a disconnect (a payload that is not a JSON
\* object, a result that is not text, a send or a close that raises) is
\* caught by the outermost except clause.  That clause makes at most one
\* attempt to send an error event and, when that returned, one close; a
\* failure of either ends the handler quietly.  Only a failing accept, which
\* is outside the try block, leaves the handler as an exception.
C15_OutermostCatch ==
    \A s \in Sessions :
        /\ pc[s] = "unhandled" => calls[s] = <<Call("accept", "", FALSE, "exception")>>
        /\ exc[s] # <<>> => pc[s] \in {"exceptSend", "exceptClose", "handled"}
        /\ \A k \in 1..Len(calls[s]) :
             (calls[s][k].out = "exception" /\ calls[s][k].op # "accept"
                 /\ ~calls[s][k].inExcept) => exc[s] # <<>>
        /\ (future[s] # None /\ ~future[s][1].isText
                /\ pc[s] \notin {"running", "resume"}) => exc[s] = SplitError
        /\ Cardinality({k \in Reports(s) : IsSend(calls[s][k])}) <= 1
        /\ Cardinality({k \in Reports(s) : IsClose(calls[s][k])}) <= 1
        /\ \A k \in Reports(s) :
             /\ IsSend(calls[s][k]) => calls[s][k].arg = "error"
             /\ IsClose(calls[s][k]) =>
                  /\ k - 1 \in Reports(s)
                  /\ IsSend(calls[s][k - 1])
                  /\ calls[s][k - 1].out = "ok"
             /\ \A j \in (k + 1)..Len(calls[s]) : j \in Reports(s)
        /\ pc[s] \in {"exceptClose", "handled"} =>
             Cardinality({k \in Reports(s) : IsSend(calls[s][k])}) = 1
        /\ pc[s] = "handled" =>
             \/ calls[s][Len(calls[s])].out # "ok"
             \/ IsClose(calls[s][Len(calls[s])])

\* C15's case: a chunk send raised, the except clause tried to report it,
\* the report raised too, and the handler ended without an exception.
C15_Witness ==
    /\ pc["s1"] = "handled"
    /\ Len(calls["s1"]) >= 2
    /\ calls["s1"][Len(calls["s1"])] = Call("send_json", "error", TRUE, "exception")
    /\ calls["s1"][Len(calls["s1"]) - 1] = Call("send_json", "chunk", FALSE, "exception")

\* The phase of a handler from the place it is at.  Validation and agent
\* resolution happen in the same step as the receive, so Validated is passed
\* without a place of its own.
Phase(p) ==
    CASE p = "accept"                    -> 0
      [] p = "receive"                   -> 1
      [] p = "sendThinking"              -> 3
      [] p \in {"running", "resume"}     -> 4
      [] p \in {"sendChunk", "sleep"}    -> 5
      [] OTHER                           -> 6

\* The edges Accepted -> Validated -> Resolved -> Dispatched -> Streaming
\* -> Terminated, and from every phase to Terminated.
PhaseEdge(a, b) ==
    \/ b = a
    \/ b = 6
    \/ <<a, b>> \in {<<0, 1>>, <<1, 3>>, <<3, 4>>, <<4, 5>>}

\* C16: a session is single-shot.  The handler receives at most one message
\* and never replaces it, runs at most one agent, and moves through its
\* phases forwards only; a handler that has ended stays ended.
C16_SingleShot ==
    [][\A s \in Sessions :
          /\ PhaseEdge(Phase(pc[s]), Phase(pc'[s]))
          /\ Received(s) => msg'[s] = msg[s]
          /\ Len(runCalls'[s]) <= 1
          /\ Cardinality({k \in 1..Len(calls'[s]) :
                             calls'[s][k].op = "receive_json"}) <= 1
          /\ Final(s) => pc'[s] = pc[s]]_vars

\* C16's case: a session went through every phase: one message, one run,
\* two chunks, done, close.
C16_Witness ==
    /\ pc["s1"] = "returned"
    /\ Len(runCalls["s1"]) = 1
    /\ Count(events["s1"], "chunk") = 2
    /\ Count(events["s1"], "done") = 1
    /\ closed["s1"]

\* C17: concurrent sessions are independent.  The agent run of a session is
\* invoked on the agent, with the (attachment-augmented) query and with the
\* identity token of that session's own message; the result the handler
\* streams is the one its own run produced, and its chunks are chunks of
\* that result.  Two sessions with different messages never run the same
\* call.
C17_Independent ==
    \A s \in Sessions :
        /\ \A k \in 1..Len(runCalls[s]) :
             /\ Received(s)
             /\ runCalls[s][k] =
                  [agent |-> msg[s][1].agent_type[1],
                   query |-> Augment(msg[s][1].query[1], msg[s][1].attached_file),
                   user_id |-> SessionIdOf(msg[s][1])]
             /\ \A t \in Sessions \ {s} :
                  (runCalls[t] # <<>> /\ msg[t] # msg[s]) =>
                      runCalls[t][1] # runCalls[s][k]
        /\ future[s] # None =>
             /\ runOutcome[s] # None
             /\ future[s][1] = RunAgentResult(runOutcome[s][1])
        /\ (future[s] # None /\ future[s][1].isText) =>
             IsPrefix(ChunkPayloads(events[s]),
                      [k \in 1..Len(Split(future[s][1].text)) |->
                          ChunkOf(Split(future[s][1].text), k)])
        /\ future[s] = None => Count(events[s], "chunk") = 0

\* C17's case: both sessions ran an agent, with different results, and both
\* streamed to done.
C17_Witness ==
    /\ \A s \in Sessions : Len(runCalls[s]) = 1 /\ Count(events[s], "done") = 1
    /\ runOutcome["s1"] # runOutcome["s2"]
    /\ "s1" \in peersRunning["s2"]

\* The space characters of a text, the maximal runs of consecutive spaces in
\* it, and whether it begins with one.
NumSpaces(t) == Cardinality({k \in 1..Len(t) : t[k] = Space})
NumRuns(t) ==
    Cardinality({k \in 1..Len(t) : t[k] = Space /\ (k = 1 \/ t[k - 1] # Space)})
LeadingSpace(t) == IF t # <<>> /\ t[1] = Space THEN 1 ELSE 0

\* The chunk events whose payload is a single space.
SingleSpaceChunks(ev) ==
    Cardinality({k \in 1..Len(ev) :
                    ev[k].type = "chunk" /\ ev[k].content = <<Space>>})

\* The session s has emitted done for a text result.
ReachedDone(s) ==
    /\ Count(events[s], "done") = 1
    /\ future[s] # None
    /\ future[s][1].isText

\* The count of chunks of a session that reached done: one plus the spaces
\* of the result text, one empty chunk for the empty text, one chunk without
\* a trailing space for a one-word text.
ChunkCount(s) ==
    LET t == future[s][1].text
        cs == ChunkPayloads(events[s])
    IN  /\ Len(cs) = 1 + NumSpaces(t)
        /\ Len(cs) >= 1
        /\ t = <<>> => cs = <<(<<>>)>>
        /\ NumSpaces(t) = 0 => cs = <<t>>

\* C18 as stated: in a session that reaches done the number of chunks is one
\* plus the number of spaces of the result text, and each run of k
\* consecutive spaces contributes k-1 chunks whose payload is a single
\* space.
C18_SpaceRunChunks ==
    \A s \in Sessions :
        ReachedDone(s) =>
            /\ ChunkCount(s)
            /\ SingleSpaceChunks(events[s]) =
                  NumSpaces(future[s][1].text) - NumRuns(future[s][1].text)

\* C18 amended: in a session that reaches done the number of chunks is one
\* plus the number of spaces of the result text (one empty chunk for the
\* empty text, one chunk without a trailing space for a one-word text); a
\* run of k consecutive spaces contributes k-1 chunks whose payload is a
\* single space, and k of them when the run begins the text.
C18_ChunkCount ==
    \A s \in Sessions :
        ReachedDone(s) =>
            /\ ChunkCount(s)
            /\ SingleSpaceChunks(events[s]) =
                  NumSpaces(future[s][1].text) - NumRuns(future[s][1].text)
                  + LeadingSpace(future[s][1].text)

\* C18's case: a result text that begins with a space was streamed to done.
C18_Witness ==
    /\ ReachedDone("s1")
    /\ future["s1"][1].text = <<Space, "a">>
    /\ ChunkPayloads(events["s1"]) = << <<Space>>, <<"a">> >>

\* C19: a valid message has arrived; the handler is scheduled whenever it
\* can take a step and the agent's run ends, by returning a text content or
\* none, or by raising.  Then, unless the client disconnects or a WebSocket
\* call raises, the handler eventually has emitted done, closed the
\* connection and returned.
C19_EventuallyDone ==
    \A s \in {"s1"} :
        (Received(s) /\ Valid(msg[s][1])) ~>
            \/ /\ pc[s] = "returned"
               /\ Count(events[s], "done") = 1
               /\ closed[s]
            \/ gone[s]
            \/ wsRaised[s]
            \/ future[s] # None /\ ~future[s][1].isText

\* C19's case: the client stayed connected, the run returned no response,
\* and the handler streamed the replacement text to done and closed.
C19_Witness ==
    /\ pc["s1"] = "returned"
    /\ ~gone["s1"]
    /\ runOutcome["s1"] = Some([kind |-> "noresponse", text |-> <<>>])
    /\ Count(events["s1"], "done") = 1
    /\ closed["s1"]

=============================================================================
